---- MODULE Spec2Model ----
(***************************************************************************)
(* Model of the sourceCpp build session of                                 *)
(* src/cpp/session/modules/build/SessionSourceCpp.cpp: the process-wide    *)
(* SourceCppContext singleton, the console-output signal it subscribes to, *)
(* the PATH environment variable it patches, the delayed-work queue that   *)
(* holds pending handleBuildComplete callbacks, and the client event       *)
(* queue.                                                                  *)
(*                                                                         *)
(* Text (console chunks, build output, warnings) is a sequence of tokens;  *)
(* the token "\n" is a newline, "D3" and "D7" stand for a fragment in the  *)
(* GCC diagnostic format (x.cpp:3:1: error: ... and x.cpp:7:2: error: ...),*)
(* "t" for text with no diagnostic, "W" for the Rtools warning message.    *)
(* PATH is the sequence of its entries; <<>> is the empty string.          *)
(***************************************************************************)
EXTENDS Integers, Sequences, FiniteSets, TLC

\* ---------------------------------------------------------------- bounds
MaxBuilds == 2          \* number of onBuild calls explored
MaxChunks == 2          \* number of console chunks explored

\* ---------------------------------------------------------------- inputs
NL == "\n"
NoFile == <<>>                                   \* FilePath()
\* the file of the b-th build: every build is of a file of its own, under the
\* home directory or outside it
FileOf(b) == << IF b % 2 = 1 THEN "home" ELSE "tmp", b >>
InitialPaths == { <<>>, <<"usr">> }              \* PATH before the first build
RtoolsEntry == "rtools"
RtoolsWarningText == <<"W">>
ChunkTexts == { <<"t">>, <<"D3", NL>> }          \* console chunks
ReportedOutputs == { <<"t">>, <<"D7">> }         \* output argument of onBuildComplete
ConsoleOutputTypes == { "normal", "error" }      \* module_context::ConsoleOutputType

VARIABLES
    \* SourceCppContext members
    sourceFile_, showOutput_, fromCode_,
    consoleOutputBuffer_, consoleErrorBuffer_,
    previousPath_, rToolsWarning_,
    \* environment of the session
    PATH,            \* core::system::getenv("PATH")
    connections,     \* slots of events().onConsoleOutput bound to onConsoleOutput
    timers,          \* pending scheduleDelayedWork callbacks, oldest first
    lastEvent,       \* the client event enqueued last
    nStarted,        \* number of kSourceCppStarted events enqueued
    nCompleted,      \* number of kSourceCppCompleted events enqueued
    startedBuilds,   \* builds whose kSourceCppStarted event was enqueued
    errStream,       \* texts written with module_context::consoleWriteError
    win32,           \* built with _WIN32
    \* history of the run (not read by the program)
    nbuilds,         \* number of onBuild calls
    cur,             \* arguments, environment and result of the latest onBuild call
    curCompleted,    \* onBuildComplete was called for the latest build
    outSince, errSince,  \* chunks pushed per channel since the latest onBuild
    nchunks,         \* number of chunks pushed
    path0            \* PATH before the first onBuild

session == <<sourceFile_, showOutput_, fromCode_, consoleOutputBuffer_,
             consoleErrorBuffer_, previousPath_, rToolsWarning_, connections>>
clientEvents == <<lastEvent, nStarted, nCompleted, startedBuilds>>
history == <<nbuilds, cur, curCompleted, outSince, errSince, nchunks, path0>>
vars == <<session, PATH, timers, clientEvents, errStream, win32, history>>

\* the build whose fields the session holds, 0 after reset
SessBuild == IF connections > 0 THEN nbuilds ELSE 0

NoBuild ==
    [file |-> NoFile, pathBefore |-> <<>>, patched |-> FALSE,
     warning |-> <<>>, overlapped |-> FALSE, discarded |-> FALSE,
     doBuild |-> FALSE]


\* ------------------------------------------------------------ text helpers
RECURSIVE Concat(_)
Concat(chunks) ==
    IF chunks = <<>> THEN <<>> ELSE Head(chunks) \o Concat(Tail(chunks))

RECURSIVE Repeat(_, _)
Repeat(n, text) == IF n = 0 THEN <<>> ELSE text \o Repeat(n - 1, text)

EndsWithNewline(text) == text # <<>> /\ text[Len(text)] = NL

\* onConsoleOutput that appends a newline on Windows whatever the chunk ends in
NormalizeAlwaysAppending(output) ==
    IF win32 THEN output \o <<NL>> ELSE output

\* the #ifdef _WIN32 block of onConsoleOutput
Normalize(output) ==
    IF win32 /\ ~EndsWithNewline(output) THEN output \o <<NL>> ELSE output

\* ------------------------------------------------- external collaborators
\* module_context::createAliasedPath: a path under the home directory is
\* reported with the "~" alias
CreateAliasedPath(file) ==
    IF file # NoFile /\ file[1] = "home" THEN <<"~">> \o Tail(file) ELSE file

\* FilePath::parent
Parent(file) == IF file = NoFile THEN <<>> ELSE SubSeq(file, 1, Len(file) - 1)

IsDiag(tok) == tok \in {"D3", "D7"}

DiagRecord(tok, baseDir) ==
    [sourceFile |-> baseDir \o <<"x.cpp">>,
     line       |-> IF tok = "D3" THEN 3 ELSE 7,
     column     |-> IF tok = "D3" THEN 1 ELSE 2,
     severity   |-> "error"]

\* gccErrorParser(baseDir)(text): one record per line holding a fragment in
\* the GCC format, in the order of the lines; other lines give no record
RECURSIVE ParseFrom(_, _, _, _)
ParseFrom(text, i, found, baseDir) ==
    IF i > Len(text) THEN found
    ELSE IF text[i] = NL THEN found \o ParseFrom(text, i + 1, <<>>, baseDir)
    ELSE IF IsDiag(text[i]) /\ found = <<>>
         THEN ParseFrom(text, i + 1, <<DiagRecord(text[i], baseDir)>>, baseDir)
    ELSE ParseFrom(text, i + 1, found, baseDir)

GccErrorParser(baseDir, text) == ParseFrom(text, 1, <<>>, baseDir)

\* build::addRtoolsToPathIfNecessary(&newPath, &warning): located says
\* whether a compatible Rtools installation can be found
AddRtoolsToPathIfNecessary(path, warning, located) ==
    IF \E i \in 1..Len(path) : path[i] = RtoolsEntry
    THEN [patched |-> FALSE, newPath |-> path, warning |-> warning]
    ELSE IF located
    THEN [patched |-> TRUE, newPath |-> <<RtoolsEntry>> \o path, warning |-> warning]
    ELSE [patched |-> FALSE, newPath |-> path, warning |-> RtoolsWarningText]

\* ------------------------------------------------------- SourceCppContext
Session ==
    [sourceFile |-> sourceFile_, showOutput |-> showOutput_, fromCode |-> fromCode_,
     consoleOutputBuffer |-> consoleOutputBuffer_,
     consoleErrorBuffer |-> consoleErrorBuffer_,
     previousPath |-> previousPath_, rToolsWarning |-> rToolsWarning_,
     connections |-> connections]

\* reset whose disconnect counts down with nothing connected
resetCountingDown(s) ==
    [sourceFile |-> NoFile, showOutput |-> FALSE, fromCode |-> FALSE,
     consoleOutputBuffer |-> <<>>, consoleErrorBuffer |-> <<>>,
     previousPath |-> <<>>, rToolsWarning |-> <<>>,
     connections |-> s.connections - 1]

\* reset that leaves the flags and the warning as they are
resetKeepingFlags(s) ==
    [sourceFile |-> NoFile, showOutput |-> s.showOutput, fromCode |-> s.fromCode,
     consoleOutputBuffer |-> <<>>, consoleErrorBuffer |-> <<>>,
     previousPath |-> <<>>, rToolsWarning |-> s.rToolsWarning,
     connections |-> 0]

\* reset that leaves the two buffers as they are
resetKeepingBuffers(s) ==
    [sourceFile |-> NoFile, showOutput |-> FALSE, fromCode |-> FALSE,
     consoleOutputBuffer |-> s.consoleOutputBuffer,
     consoleErrorBuffer |-> s.consoleErrorBuffer,
     previousPath |-> <<>>, rToolsWarning |-> <<>>,
     connections |-> 0]

\* SourceCppContext::reset
reset(s) ==
    [sourceFile |-> NoFile, showOutput |-> FALSE, fromCode |-> FALSE,
     consoleOutputBuffer |-> <<>>, consoleErrorBuffer |-> <<>>,
     previousPath |-> <<>>, rToolsWarning |-> <<>>,
     connections |-> 0]

SetSession(s) ==
    /\ sourceFile_' = s.sourceFile
    /\ showOutput_' = s.showOutput
    /\ fromCode_' = s.fromCode
    /\ consoleOutputBuffer_' = s.consoleOutputBuffer
    /\ consoleErrorBuffer_' = s.consoleErrorBuffer
    /\ previousPath_' = s.previousPath
    /\ rToolsWarning_' = s.rToolsWarning
    /\ connections' = s.connections

\* onConsoleOutput that appends every chunk to both buffers
onConsoleOutputToBoth(s, type, output) ==
    [s EXCEPT !.consoleOutputBuffer =
                  @ \o Repeat(s.connections, Normalize(output)),
              !.consoleErrorBuffer =
                  @ \o Repeat(s.connections, Normalize(output))]

\* SourceCppContext::onConsoleOutput, run once per connected slot
onConsoleOutput(s, type, output) ==
    IF type = "normal"
    THEN [s EXCEPT !.consoleOutputBuffer =
                       @ \o Repeat(s.connections, Normalize(output))]
    ELSE [s EXCEPT !.consoleErrorBuffer =
                       @ \o Repeat(s.connections, Normalize(output))]

\* enqueSourceCppStarted
StartedEvent(b) == [type |-> "started", build |-> b]

\* enqueSourceCppCompleted that reports no error output
CompletedEventDroppingErrorOutput(sourceFile, output, errorOutput, b, sb) ==
    [type       |-> "completed",
     targetFile |-> CreateAliasedPath(sourceFile),
     outputs    |-> << [kind |-> "normal", text |-> output],
                       [kind |-> "error", text |-> <<>>] >>,
     errors     |-> GccErrorParser(Parent(sourceFile),
                                   output \o <<NL>> \o errorOutput),
     build      |-> b,
     sess       |-> sb]

\* enqueSourceCppCompleted that parses the error output before the normal
\* output
CompletedEventErrorsFirst(sourceFile, output, errorOutput, b, sb) ==
    [type       |-> "completed",
     targetFile |-> CreateAliasedPath(sourceFile),
     outputs    |-> << [kind |-> "normal", text |-> output],
                       [kind |-> "error", text |-> errorOutput] >>,
     errors     |-> GccErrorParser(Parent(sourceFile),
                                   errorOutput \o <<NL>> \o output),
     build      |-> b,
     sess       |-> sb]

\* enqueSourceCppCompleted that parses the normal output alone
CompletedEventParsingOutputOnly(sourceFile, output, errorOutput, b, sb) ==
    [type       |-> "completed",
     targetFile |-> CreateAliasedPath(sourceFile),
     outputs    |-> << [kind |-> "normal", text |-> output],
                       [kind |-> "error", text |-> errorOutput] >>,
     errors     |-> GccErrorParser(Parent(sourceFile), output),
     build      |-> b,
     sess       |-> sb]

\* enqueSourceCppCompleted; build and sess annotate the event with the build
\* whose onBuildComplete scheduled it and the build whose fields it read
CompletedEvent(sourceFile, output, errorOutput, b, sb) ==
    [type       |-> "completed",
     targetFile |-> CreateAliasedPath(sourceFile),
     outputs    |-> << [kind |-> "normal", text |-> output],
                       [kind |-> "error", text |-> errorOutput] >>,
     errors     |-> GccErrorParser(Parent(sourceFile),
                                   output \o <<NL>> \o errorOutput),
     build      |-> b,
     sess       |-> sb]

\* handleBuildComplete: "restore previous path"
RestorePath(previousPath, path) ==
    IF previousPath # <<>> THEN previousPath ELSE path

\* output selection that forgets showOutput_
BuildOutputIgnoringShowOutput(succeeded, showOutput, consoleOutputBuffer, output) ==
    IF ~succeeded THEN consoleOutputBuffer ELSE output

\* output selection that always takes the transcript
BuildOutputAlwaysTranscript(succeeded, showOutput, consoleOutputBuffer, output) ==
    consoleOutputBuffer

\* handleBuildComplete: "collect all build output"
BuildOutput(succeeded, showOutput, consoleOutputBuffer, output) ==
    IF ~succeeded \/ showOutput THEN consoleOutputBuffer ELSE output

\* the event enqueued whatever fromCode_ is
EnqueCompletedAlways(fromCode) == TRUE

\* handleBuildComplete: the guard of enqueSourceCppCompleted
EnqueCompleted(fromCode) == ~fromCode

\* ------------------------------------------------------------------- Init
Init ==
    /\ sourceFile_ = NoFile
    /\ showOutput_ = FALSE
    /\ fromCode_ = FALSE
    /\ consoleOutputBuffer_ = <<>>
    /\ consoleErrorBuffer_ = <<>>
    /\ previousPath_ = <<>>
    /\ rToolsWarning_ = <<>>
    /\ PATH \in InitialPaths
    /\ connections = 0
    /\ timers = <<>>
    /\ lastEvent = [type |-> "none"]
    /\ nStarted = 0
    /\ nCompleted = 0
    /\ startedBuilds = {}
    /\ errStream = <<>>
    /\ win32 \in BOOLEAN
    /\ nbuilds = 0
    /\ cur = NoBuild
    /\ curCompleted = FALSE
    /\ outSince = <<>>
    /\ errSince = <<>>
    /\ nchunks = 0
    /\ path0 = PATH

\* ---------------------------------------------------------------- actions
\* onBuild that allows the build only when it has patched PATH
OnBuildReturnPatched(patched) == patched

\* onBuild: "return true to indicate it's okay to build", whatever
\* addRtoolsToPathIfNecessary returned
OnBuildReturn(patched) == TRUE

\* onBuild without its 'started' event
EnqueStartedMissing(b) == UNCHANGED clientEvents

\* onBuild: "enque build started"
EnqueStarted(b) ==
    /\ lastEvent' = StartedEvent(b)
    /\ nStarted' = nStarted + 1
    /\ startedBuilds' = startedBuilds \cup {b}
    /\ UNCHANGED nCompleted

\* SourceCppContext::onBuild(sourceFile, fromCode, showOutput)
Start(fromCode, showOutput, located) ==
    /\ nbuilds < MaxBuilds
    /\ LET file == FileOf(nbuilds + 1)
           s0 == reset(Session)
           path == PATH
           r == AddRtoolsToPathIfNecessary(path, s0.rToolsWarning, located)
           b == nbuilds + 1
       IN /\ SetSession([s0 EXCEPT
                  !.sourceFile = file,
                  !.fromCode = fromCode,
                  !.showOutput = showOutput,
                  !.previousPath = IF r.patched THEN path ELSE @,
                  !.rToolsWarning = r.warning,
                  !.connections = @ + 1])
          /\ PATH' = IF r.patched THEN r.newPath ELSE PATH
          /\ EnqueStarted(b)
          /\ nbuilds' = b
          /\ cur' = [file |-> file, pathBefore |-> path,
                     patched |-> r.patched, warning |-> r.warning,
                     overlapped |-> (connections > 0 \/ timers # <<>>),
                     discarded |-> (consoleOutputBuffer_ # <<>>
                                       \/ consoleErrorBuffer_ # <<>>),
                     doBuild |-> OnBuildReturn(r.patched)]
    /\ curCompleted' = FALSE
    /\ outSince' = <<>>
    /\ errSince' = <<>>
    /\ UNCHANGED <<timers, errStream, win32, nchunks, path0>>

\* onBuildComplete that restores PATH at once instead of leaving it to the
\* delayed work
OnBuildCompleteRestoringPath(succeeded, output) ==
    /\ nbuilds > 0
    /\ ~curCompleted
    /\ timers' = Append(timers,
           [succeeded |-> succeeded, output |-> output,
            build |-> nbuilds, file |-> cur.file])
    /\ curCompleted' = TRUE
    /\ PATH' = RestorePath(previousPath_, PATH)
    /\ UNCHANGED <<session, clientEvents, errStream, win32,
                   nbuilds, cur, outSince, errSince, nchunks, path0>>

\* SourceCppContext::onBuildComplete(succeeded, output), called by the build
\* invoker once for the build it started last; build and file annotate the
\* callback with that build
OnBuildComplete(succeeded, output) ==
    /\ nbuilds > 0
    /\ ~curCompleted
    /\ timers' = Append(timers,
           [succeeded |-> succeeded, output |-> output,
            build |-> nbuilds, file |-> cur.file])
    /\ curCompleted' = TRUE
    /\ UNCHANGED <<session, PATH, clientEvents, errStream, win32,
                   nbuilds, cur, outSince, errSince, nchunks, path0>>

\* delayed work that stays scheduled after it has run
HandleBuildCompleteKeepingTimer(syncConsole) ==
    /\ timers # <<>>
    /\ LET t == Head(timers)
           buildOutput == BuildOutput(t.succeeded, showOutput_,
                                      consoleOutputBuffer_, t.output)
           warn == ~t.succeeded /\ rToolsWarning_ # <<>>
           s1 == IF warn /\ syncConsole
                 THEN onConsoleOutput(Session, "error", rToolsWarning_)
                 ELSE Session
       IN /\ PATH' = RestorePath(previousPath_, PATH)
          /\ errStream' = IF warn THEN Append(errStream, rToolsWarning_)
                          ELSE errStream
          /\ IF EnqueCompleted(fromCode_)
             THEN /\ lastEvent' = CompletedEvent(sourceFile_, buildOutput,
                                     s1.consoleErrorBuffer, t.build, SessBuild)
                  /\ nCompleted' = nCompleted + 1
                  /\ UNCHANGED <<nStarted, startedBuilds>>
             ELSE UNCHANGED clientEvents
          /\ SetSession(reset(s1))
    /\ timers' = timers
    /\ UNCHANGED <<win32, history>>

\* the delayed work fires: SourceCppContext::handleBuildComplete; syncConsole
\* says whether module_context::consoleWriteError fires onConsoleOutput
\* before it returns
HandleBuildComplete(syncConsole) ==
    /\ timers # <<>>
    /\ LET t == Head(timers)
           buildOutput == BuildOutput(t.succeeded, showOutput_,
                                      consoleOutputBuffer_, t.output)
           warn == ~t.succeeded /\ rToolsWarning_ # <<>>
           s1 == IF warn /\ syncConsole
                 THEN onConsoleOutput(Session, "error", rToolsWarning_)
                 ELSE Session
       IN /\ PATH' = RestorePath(previousPath_, PATH)
          /\ errStream' = IF warn THEN Append(errStream, rToolsWarning_)
                          ELSE errStream
          /\ IF EnqueCompleted(fromCode_)
             THEN /\ lastEvent' = CompletedEvent(sourceFile_, buildOutput,
                                     s1.consoleErrorBuffer, t.build, SessBuild)
                  /\ nCompleted' = nCompleted + 1
                  /\ UNCHANGED <<nStarted, startedBuilds>>
             ELSE UNCHANGED clientEvents
          /\ SetSession(reset(s1))
    /\ timers' = Tail(timers)
    /\ UNCHANGED <<win32, history>>

\* the console source pushes a chunk through events().onConsoleOutput
ConsoleOutput(type, output) ==
    /\ nchunks < MaxChunks
    /\ SetSession(onConsoleOutput(Session, type, output))
    /\ nchunks' = nchunks + 1
    /\ outSince' = IF type = "normal" THEN Append(outSince, Normalize(output))
                   ELSE outSince
    /\ errSince' = IF type = "normal" THEN errSince
                   ELSE Append(errSince, Normalize(output))
    /\ UNCHANGED <<PATH, timers, clientEvents, errStream, win32,
                   nbuilds, cur, curCompleted, path0>>

Next ==
    \/ \E fromCode \in BOOLEAN, showOutput \in BOOLEAN, located \in BOOLEAN :
          Start(fromCode, showOutput, located)
    \/ \E succeeded \in BOOLEAN, output \in ReportedOutputs :
          OnBuildComplete(succeeded, output)
    \/ \E syncConsole \in BOOLEAN : HandleBuildComplete(syncConsole)
    \/ \E type \in ConsoleOutputTypes, output \in ChunkTexts :
          ConsoleOutput(type, output)

Spec == Init /\ [][Next]_vars

\* The specification for what eventually happens.  The queue of callbacks
\* depends neither on the platform, nor on the initial PATH, nor on the text
\* of the chunks, so these are fixed: a Windows build, a non-empty PATH and
\* chunks that are one diagnostic line.
FairInit == Init /\ PATH = <<"usr">> /\ win32

FairNext ==
    \/ \E fromCode \in BOOLEAN, showOutput \in BOOLEAN, located \in BOOLEAN :
          Start(fromCode, showOutput, located)
    \/ \E succeeded \in BOOLEAN, output \in ReportedOutputs :
          OnBuildComplete(succeeded, output)
    \/ \E syncConsole \in BOOLEAN : HandleBuildComplete(syncConsole)
    \/ \E type \in ConsoleOutputTypes : ConsoleOutput(type, <<"D3", NL>>)

\* the delayed work scheduled by onBuildComplete (scheduleDelayedWork, 200 ms,
\* not idle-only) is run by the session's event loop: a pending callback
\* does not wait forever
FairSpec ==
    /\ FairInit
    /\ [][FairNext]_vars
    /\ WF_vars(\E syncConsole \in BOOLEAN : HandleBuildComplete(syncConsole))

\* ----------------------------------------------------------------- claims
\* a step in which a pending handleBuildComplete callback runs
Fired == timers # <<>> /\ timers' = Tail(timers)

\* a step in which a kSourceCppCompleted event is enqueued
Emitted == nCompleted' = nCompleted + 1

\* C1: a finalize scheduled for a build that a later onBuild has replaced
\* emits no 'completed' event and leaves the session of the later build and
\* PATH untouched.
C1_StaleFinalizeDiscarded ==
    [][ (Fired /\ Head(timers).build < nbuilds)
           => /\ UNCHANGED <<session, PATH>>
              /\ UNCHANGED clientEvents ]_vars

\* C2: once the session is idle with no finalize pending, PATH is the value
\* it had before the first onBuild (stated for a non-empty original PATH;
\* the empty original PATH is the case of C3).
C2_OriginalPathNotLost ==
    (connections = 0 /\ timers = <<>> /\ path0 # <<>>) => PATH = path0

\* C3: the finalize of a build that was started on an idle session with
\* nothing pending and whose onBuild patched PATH leaves PATH equal to its
\* value strictly before that onBuild, for every prior value.
C3_SingleBuildRestoresPath ==
    [][ (Fired /\ Head(timers).build = nbuilds
               /\ ~cur.overlapped /\ cur.patched)
           => PATH' = cur.pathBefore ]_vars

\* C4: whatever succeeded, fromCode and showOutput are, the finalize of a
\* build whose onBuild patched PATH sets PATH back to the value before that
\* onBuild, no other finalize writes PATH, and previousPath_ is empty
\* whenever the session is idle.
C4_RestoreOncePerBuild ==
    [][ /\ (Fired /\ Head(timers).build = nbuilds /\ cur.patched)
              => PATH' = cur.pathBefore
        /\ (Fired /\ Head(timers).build < nbuilds) => PATH' = PATH
        /\ connections' = 0 => previousPath_' = <<>> ]_vars

\* C5: while a build holds the session, each buffer is exactly the chunks
\* pushed on its channel since the latest onBuild and the warning is the one
\* that onBuild produced; otherwise buffers and warning are empty.  Nothing
\* of an earlier build survives a later onBuild.
C5_NoCrossContamination ==
    IF connections > 0
    THEN /\ consoleOutputBuffer_ = Concat(outSince)
         /\ consoleErrorBuffer_ = Concat(errSince)
         /\ rToolsWarning_ = cur.warning
    ELSE /\ consoleOutputBuffer_ = <<>>
         /\ consoleErrorBuffer_ = <<>>
         /\ rToolsWarning_ = <<>>

\* a second onBuild arrived while the first build held the session, chunks
\* were pushed both before and after it
C5_Witness ==
    /\ nbuilds = 2 /\ cur.overlapped /\ cur.discarded /\ connections > 0
    /\ Len(outSince) + Len(errSince) = 1

\* C6: a 'completed' event carries the target file of the build whose
\* onBuildComplete scheduled the finalize, and is built from the session
\* fields of that same build.
C6_CompletedBelongsToItsBuild ==
    [][ (Fired /\ Emitted)
           => /\ lastEvent'.targetFile = CreateAliasedPath(Head(timers).file)
              /\ lastEvent'.sess = Head(timers).build ]_vars

\* C7 (as claimed): every finalize enqueues exactly one 'completed' event,
\* also when fromCode is set.
C7_EveryFinalizeEmits ==
    [][ Fired => (Emitted /\ lastEvent'.type = "completed") ]_vars

\* C7 (amended): a finalize enqueues exactly one 'completed' event when the
\* session's fromCode flag is clear and no event at all when it is set.
C7_FinalizeEmitsUnlessFromCode ==
    [][ Fired => IF fromCode_
                 THEN UNCHANGED clientEvents
                 ELSE /\ Emitted
                      /\ lastEvent'.type = "completed"
                      /\ UNCHANGED <<nStarted, startedBuilds>> ]_vars

\* the finalize of a fromCode build has run and no event was enqueued
C7_Witness ==
    /\ nbuilds = 1 /\ curCompleted /\ timers = <<>>
    /\ nCompleted = 0 /\ lastEvent.type = "started"

\* C8: a 'completed' event is enqueued only after the 'started' event of the
\* build that scheduled it and of the build whose fields it reports, and
\* there are never more 'completed' than 'started' events.
C8_StartedPrecedesCompleted ==
    /\ nCompleted <= nStarted
    /\ lastEvent.type = "completed"
          => /\ lastEvent.build \in startedBuilds
             /\ lastEvent.sess # 0 => lastEvent.sess \in startedBuilds

\* two builds have run to their 'completed' events
C8_Witness ==
    /\ lastEvent.type = "completed" /\ lastEvent.build = 2
    /\ nCompleted = 2 /\ nStarted = 2

\* C9 (as claimed): the selected output is consoleOutputBuffer_ followed by
\* consoleErrorBuffer_ when the build failed or showOutput_ is set, and the
\* reported output otherwise.
C9_TranscriptIsBothBuffers ==
    [][ (Fired /\ Emitted)
           => lastEvent'.outputs[1].text =
                 IF ~Head(timers).succeeded \/ showOutput_
                 THEN consoleOutputBuffer_ \o consoleErrorBuffer_
                 ELSE Head(timers).output ]_vars

\* C9 (amended): the selected output is consoleOutputBuffer_ alone when the
\* build failed or showOutput_ is set, and the reported output otherwise;
\* consoleErrorBuffer_ is not part of it.
C9_OutputSelection ==
    [][ (Fired /\ Emitted)
           => lastEvent'.outputs[1].text =
                 IF ~Head(timers).succeeded \/ showOutput_
                 THEN consoleOutputBuffer_
                 ELSE Head(timers).output ]_vars

\* a 'completed' event whose normal text is the captured transcript while
\* the error buffer was not empty
C9_Witness ==
    /\ lastEvent.type = "completed"
    /\ lastEvent.outputs[1].text = <<"D3", NL>>
    /\ lastEvent.outputs[2].text # <<>>

\* the finalize of the latest build, started with fromCode = showOutput =
\* FALSE on an idle session, which got no error chunk and succeeded
SuccessNoShowOutput ==
    /\ Fired
    /\ Head(timers).build = nbuilds
    /\ Head(timers).succeeded
    /\ ~cur.overlapped /\ ~fromCode_ /\ ~showOutput_
    /\ errSince = <<>>

\* C10 (as claimed): in that scenario the normal output text of the
\* 'completed' event is the reported output r and errors is empty.
C10_ReportedOutputNoErrors ==
    [][ SuccessNoShowOutput
           => /\ Emitted
              /\ lastEvent'.outputs[1].text = Head(timers).output
              /\ lastEvent'.errors = <<>> ]_vars

\* C10 (amended): in that scenario the normal output text is r, the error
\* output text is empty and errors holds the diagnostics of the GCC-format
\* lines of r alone: no buffered chunk reaches the event, and errors is
\* empty exactly when r has no such line.
C10_ReportedOutputOnly ==
    [][ SuccessNoShowOutput
           => /\ Emitted
              /\ lastEvent'.outputs[1].text = Head(timers).output
              /\ lastEvent'.outputs[2].text = <<>>
              /\ lastEvent'.errors =
                    GccErrorParser(Parent(cur.file), Head(timers).output)
              /\ (lastEvent'.errors = <<>>) =
                    (\A i \in 1..Len(Head(timers).output) :
                         ~IsDiag(Head(timers).output[i])) ]_vars

\* such a build has completed: normal chunks holding a diagnostic were
\* buffered, the event reports r
C10_Witness ==
    /\ nbuilds = 1 /\ curCompleted /\ timers = <<>>
    /\ errSince = <<>> /\ outSince # <<>> /\ outSince[1][1] = "D3"
    /\ lastEvent.type = "completed"
    /\ lastEvent.outputs[1].text = <<"t">>
    /\ lastEvent.errors = <<>>

\* the finalize of the latest build, started with fromCode = FALSE and
\* showOutput = TRUE on an idle session, which failed after error chunks that
\* are GCC-format lines and no other chunk (the output argument is not read
\* when the build failed)
FailureWithDiagnostics ==
    /\ Fired
    /\ Head(timers).build = nbuilds
    /\ ~Head(timers).succeeded
    /\ ~cur.overlapped /\ ~fromCode_ /\ showOutput_
    /\ outSince = <<>>
    /\ \A i \in 1..Len(errSince) : errSince[i] = <<"D3", NL>>

\* C11: in that scenario the 'completed' event has exactly one record per
\* delivered diagnostic line, none twice, each with the line and column of
\* that line.
C11_OneRecordPerDiagnostic ==
    [][ FailureWithDiagnostics
           => /\ Emitted
              /\ Len(lastEvent'.errors) = Len(errSince)
              /\ \A i \in 1..Len(lastEvent'.errors) :
                    /\ lastEvent'.errors[i].line = 3
                    /\ lastEvent'.errors[i].column = 1 ]_vars

\* a failed build whose two error chunks were diagnostic lines has
\* completed with two records (the Rtools warning on the error stream shows
\* the build failed)
C11_Witness ==
    /\ nbuilds = 1 /\ curCompleted /\ timers = <<>>
    /\ outSince = <<>>
    /\ errSince = << <<"D3", NL>>, <<"D3", NL>> >>
    /\ errStream = << RtoolsWarningText >>
    /\ lastEvent.type = "completed"
    /\ Len(lastEvent.errors) = 2

\* C12: when the finalize of a build runs, each buffer it reads holds every
\* chunk pushed on that channel since the start of that build, the chunks
\* pushed after onBuildComplete included; none was dropped.
C12_EveryChunkCaptured ==
    [][ (Fired /\ Head(timers).build = nbuilds)
           => /\ consoleOutputBuffer_ = Concat(outSince)
              /\ consoleErrorBuffer_ = Concat(errSince) ]_vars

\* a step in which onBuildComplete is called
OnBuildCompleteCalled == ~curCompleted /\ curCompleted'

\* C13: onBuildComplete finalizes nothing itself: it enqueues no event,
\* writes neither PATH nor the error stream, leaves every member of the
\* session and the console subscription as they are, and adds exactly one
\* pending callback, which carries its succeeded and output arguments.
C13_OnBuildCompleteOnlySchedules ==
    [][ OnBuildCompleteCalled
           => /\ UNCHANGED <<session, PATH, clientEvents, errStream>>
              /\ \E succeeded \in BOOLEAN, output \in ReportedOutputs :
                    timers' = Append(timers,
                        [succeeded |-> succeeded, output |-> output,
                         build |-> nbuilds, file |-> cur.file]) ]_vars

\* onBuildComplete was called in a build with a patched PATH and buffered
\* chunks: the callback is pending, PATH is still patched, the chunks and
\* the subscription are still there and 'started' is still the last event
C13_Witness ==
    /\ curCompleted
    /\ Len(timers) = 1 /\ Head(timers).build = nbuilds
    /\ connections = 1
    /\ previousPath_ # <<>> /\ PATH = <<RtoolsEntry>> \o previousPath_
    /\ consoleOutputBuffer_ # <<>> /\ consoleErrorBuffer_ # <<>>
    /\ lastEvent.type = "started"

\* the callback scheduled by the onBuildComplete call of build b is pending
Pending(b) == \E i \in 1..Len(timers) : timers[i].build = b

\* the session as reset() leaves it
IdleSession ==
    /\ sourceFile_ = NoFile /\ ~showOutput_ /\ ~fromCode_
    /\ consoleOutputBuffer_ = <<>> /\ consoleErrorBuffer_ = <<>>
    /\ previousPath_ = <<>> /\ rToolsWarning_ = <<>>
    /\ connections = 0

\* C14: the callback scheduled by each onBuildComplete call eventually runs,
\* with the succeeded and output arguments of that call (the record at the
\* head of the queue is the one the call appended), and leaves the session
\* idle; once run it is no longer pending, so it does not run twice; at most
\* one callback is pending per call; and an event is enqueued after
\* 'started', or the error stream written, only by the run of a pending
\* callback.
C14_EachCompleteFinalizedOnce ==
    /\ \A b \in 1..MaxBuilds : Pending(b) ~> ~Pending(b)
    /\ [][ Fired => /\ IdleSession'
                    /\ \A i \in 1..Len(timers') :
                          timers'[i].build > Head(timers).build ]_vars
    /\ [][ OnBuildCompleteCalled => ~Pending(nbuilds) /\ Pending(nbuilds)' ]_vars
    /\ [][ (Emitted \/ errStream' # errStream) => Fired ]_vars
    /\ [](\A i \in 1..Len(timers) : \A j \in 1..Len(timers) :
             i < j => timers[i].build < timers[j].build)

\* two onBuildComplete calls were each followed by the run of their
\* callback: two 'completed' events, nothing pending, session idle
C14_Witness ==
    /\ nbuilds = 2 /\ curCompleted /\ timers = <<>>
    /\ nCompleted = 2
    /\ IdleSession

\* a build is in progress: the latest onBuild has not been followed by the
\* run of its own callback
BuildInProgress == nbuilds > 0 /\ (~curCompleted \/ Pending(nbuilds))

\* C15: at every point of a build each buffer is the concatenation, in the
\* order of delivery, of the normalized chunks pushed on its channel since
\* the latest onBuild.
C15_BuffersAreChunksInOrder ==
    BuildInProgress
        => /\ consoleOutputBuffer_ = Concat(outSince)
           /\ consoleErrorBuffer_ = Concat(errSince)

\* a step in which a chunk is pushed to a subscribed session
ChunkDelivered == nchunks' = nchunks + 1 /\ connections = 1

\* the text the claim says is stored for a pushed chunk
StoredAs(chunk) ==
    IF win32
    THEN IF chunk # <<>> /\ chunk[Len(chunk)] = NL
         THEN chunk
         ELSE chunk \o <<NL>>
    ELSE chunk

\* C16: built for Windows, a chunk that does not end in a newline is stored
\* with exactly one newline appended and a chunk that ends in a newline is
\* stored as it is; on other platforms every chunk is stored verbatim; in
\* both, normalizing twice is normalizing once.
C16_LineEndingNormalization ==
    /\ [](\A chunk \in ChunkTexts \cup { <<>>, <<NL>>, <<"t", NL, "t">> } :
             /\ Normalize(chunk) = StoredAs(chunk)
             /\ Normalize(Normalize(chunk)) = Normalize(chunk))
    /\ [][ ChunkDelivered
             => \E chunk \in ChunkTexts :
                   \/ /\ consoleOutputBuffer_' =
                            consoleOutputBuffer_ \o StoredAs(chunk)
                      /\ UNCHANGED consoleErrorBuffer_
                   \/ /\ consoleErrorBuffer_' =
                            consoleErrorBuffer_ \o StoredAs(chunk)
                      /\ UNCHANGED consoleOutputBuffer_ ]_vars

\* on Windows a chunk without a final newline and a chunk with one were
\* pushed: the first got a newline, the second was stored as it was
C16_Witness ==
    /\ win32
    /\ connections = 1
    /\ consoleOutputBuffer_ = <<"t", NL, "D3", NL>>

\* a step in which onBuild is called
OnBuildCalled == nbuilds' = nbuilds + 1

\* the build in progress was started with no Rtools found: the patcher
\* reported no patch and a warning
WarningBuildInProgress == BuildInProgress /\ cur.warning # <<>>

\* C17: an onBuild whose patcher reports no patch and a warning still
\* enqueues 'started' and does not write PATH; no later step of that build,
\* its finalize included, writes PATH; and the warning is written to the
\* error stream exactly by the finalize of that build when the build failed.
C17_ToolchainNotFoundIsNonFatal ==
    [][ /\ (OnBuildCalled /\ cur'.warning # <<>>)
              => /\ PATH' = PATH
                 /\ lastEvent' = StartedEvent(nbuilds')
                 /\ connections' = 1
        /\ (WarningBuildInProgress /\ ~OnBuildCalled)
              => /\ PATH' = PATH
                 /\ (errStream' # errStream) =
                       (/\ Fired
                        /\ Head(timers).build = nbuilds
                        /\ ~Head(timers).succeeded)
                 /\ errStream' \in {errStream, Append(errStream, cur.warning)}
      ]_vars

\* C18: every run of handleBuildComplete, whatever succeeded, fromCode_ and
\* showOutput_ are, leaves the session idle: no source file, both flags
\* false, both buffers, the previous path and the warning empty, and
\* onConsoleOutput disconnected.
C18_FinalizeResetsSession ==
    [][ Fired
           => /\ sourceFile_' = NoFile
              /\ fromCode_' = FALSE /\ showOutput_' = FALSE
              /\ consoleOutputBuffer_' = <<>> /\ consoleErrorBuffer_' = <<>>
              /\ previousPath_' = <<>> /\ rToolsWarning_' = <<>>
              /\ connections' = 0 ]_vars

\* a failed build from code with the Rtools warning has been finalized: the
\* warning was written, no event was enqueued, and the session is idle
C18_Witness ==
    /\ nbuilds = 1 /\ curCompleted /\ timers = <<>>
    /\ errStream = << RtoolsWarningText >>
    /\ nCompleted = 0
    /\ outSince # <<>> /\ errSince # <<>>
    /\ IdleSession

\* C19: in every state of the session a second reset() changes nothing the
\* first one left (no member, and not the set of connected slots, which a
\* disconnect with nothing connected leaves empty), and reset() of an idle
\* session leaves it idle.
C19_ResetIsIdempotent ==
    /\ reset(reset(Session)) = reset(Session)
    /\ reset(Session).connections = 0
    /\ IdleSession => reset(Session) = Session

\* reset() has run twice in a row: at the end of the first build's finalize
\* and at the beginning of the second onBuild, which found the session idle
C19_Witness ==
    /\ nbuilds = 2 /\ ~cur.overlapped /\ ~cur.discarded
    /\ nCompleted = 1
    /\ connections = 1
    /\ consoleOutputBuffer_ = <<>> /\ consoleErrorBuffer_ = <<>>

\* C20: the session never has more than one slot connected to the console
\* output signal, and it has one exactly while a build is in progress
\* (started, its own callback not yet run).
C20_OneSubscriptionWhileBuilding ==
    /\ connections <= 1
    /\ (connections = 1) = BuildInProgress

\* C21: every call of onBuild, whether the session is idle, building or
\* waiting for a pending callback, returns true and enqueues exactly one
\* 'started' event and nothing else.
C21_OnBuildAlwaysAllows ==
    [][ OnBuildCalled
           => /\ cur'.doBuild = TRUE
              /\ nStarted' = nStarted + 1
              /\ nCompleted' = nCompleted
              /\ lastEvent' = StartedEvent(nbuilds') ]_vars

\* onBuild was called while the callback of the build before was pending
\* and no Rtools was found: it returned true and 'started' was enqueued a
\* second time
C21_Witness ==
    /\ nbuilds = 2 /\ cur.overlapped
    /\ timers # <<>> /\ Head(timers).build = 1
    /\ cur.warning # <<>>
    /\ cur.doBuild
    /\ nStarted = 2 /\ lastEvent = StartedEvent(2)

\* the lines of a text, in order
RECURSIVE LinesOf(_)
LinesOf(text) ==
    IF \E i \in 1..Len(text) : text[i] = NL
    THEN LET i == CHOOSE k \in 1..Len(text) :
                     /\ text[k] = NL
                     /\ \A j \in 1..(k - 1) : text[j] # NL
         IN <<SubSeq(text, 1, i - 1)>> \o LinesOf(SubSeq(text, i + 1, Len(text)))
    ELSE <<text>>

\* the records the claim expects of a sequence of lines: one for each line
\* that holds a fragment in the GCC format, in the order of the lines
RECURSIVE RecordsOfLines(_, _)
RecordsOfLines(lines, baseDir) ==
    IF lines = <<>> THEN <<>>
    ELSE LET line == Head(lines)
             rec == IF \E i \in 1..Len(line) : IsDiag(line[i])
                    THEN LET i == CHOOSE k \in 1..Len(line) :
                                     /\ IsDiag(line[k])
                                     /\ \A j \in 1..(k - 1) : ~IsDiag(line[j])
                         IN <<DiagRecord(line[i], baseDir)>>
                    ELSE <<>>
         IN rec \o RecordsOfLines(Tail(lines), baseDir)

\* C22: the errors of every 'completed' event are the records of the
\* GCC-format lines of its normal output text, a newline and its error
\* output text, in the order of these lines; the other lines give no record,
\* and the event is enqueued whatever the lines are.
C22_DiagnosticsOfAllOutput ==
    [][ (Fired /\ ~fromCode_)
           => /\ Emitted
              /\ lastEvent'.errors =
                    RecordsOfLines(
                        LinesOf(lastEvent'.outputs[1].text \o <<NL>>
                                   \o lastEvent'.outputs[2].text),
                        Parent(sourceFile_)) ]_vars

\* a 'completed' event whose reported output was a diagnostic line and
\* whose error text holds a line with no diagnostic and then a diagnostic
\* line: two records, the one of the output first
C22_Witness ==
    /\ lastEvent.type = "completed"
    /\ lastEvent.outputs[1].text = <<"D7">>
    /\ lastEvent.outputs[2].text = <<"t", NL, "D3", NL>>
    /\ Len(lastEvent.errors) = 2
    /\ lastEvent.errors[1].line = 7
    /\ lastEvent.errors[2].line = 3

\* onBuildComplete has not been called since the latest onBuild
AwaitingBuildComplete == nbuilds > 0 /\ ~curCompleted

\* C23: as long as onBuildComplete has not been called since the latest
\* onBuild, the session stays as that onBuild left it: its source file is
\* set, onConsoleOutput is connected and a patched PATH is still patched;
\* and only onBuild and the run of a callback change the source file, the
\* flags, the previous path, PATH or the subscription, while a chunk pushed
\* to the subscribed session makes a buffer longer.
C23_StuckInBuilding ==
    /\ [](AwaitingBuildComplete
             => /\ connections = 1
                /\ sourceFile_ = cur.file
                /\ cur.patched
                      => /\ previousPath_ = cur.pathBefore
                         /\ PATH = <<RtoolsEntry>> \o cur.pathBefore)
    /\ [][ (~Fired /\ ~OnBuildCalled)
              => UNCHANGED <<sourceFile_, fromCode_, showOutput_,
                             previousPath_, connections, PATH>> ]_vars
    /\ [][ ChunkDelivered
              => Len(consoleOutputBuffer_') + Len(consoleErrorBuffer_')
                    > Len(consoleOutputBuffer_) + Len(consoleErrorBuffer_) ]_vars

\* a run of handleBuildComplete that writes the Rtools warning with
\* consoleWriteError and then enqueues the 'completed' event
WarningWritten ==
    /\ Fired /\ Emitted
    /\ ~Head(timers).succeeded
    /\ rToolsWarning_ # <<>>

\* the text holds the warning message
HoldsWarning(text) == \E i \in 1..Len(text) : text[i] = RtoolsWarningText[1]

\* C24: the warning written to the error console by such a run is in
\* neither output text of the 'completed' event, also when the write is
\* delivered to the connected slot before consoleWriteError returns: the
\* error output text is the error buffer as it was when the callback began.
C24_WarningNotCaptured ==
    [][ WarningWritten
           => /\ ~HoldsWarning(lastEvent'.outputs[1].text)
              /\ ~HoldsWarning(lastEvent'.outputs[2].text)
              /\ lastEvent'.outputs[2].text = consoleErrorBuffer_ ]_vars

\* C25: every 'completed' event has exactly two output entries, the normal
\* one and then the error one; whatever succeeded and showOutput_ are, the
\* text of the error entry is consoleErrorBuffer_ as it is when the event is
\* built (the buffer the callback found, followed by the Rtools warning when
\* this run wrote it and it was delivered at once), and the records of its
\* GCC-format lines are the last of the event's errors.
C25_TwoOutputsErrorBufferAlways ==
    [][ (Fired /\ Emitted)
           => /\ Len(lastEvent'.outputs) = 2
              /\ lastEvent'.outputs[1].kind = "normal"
              /\ lastEvent'.outputs[2].kind = "error"
              /\ \/ lastEvent'.outputs[2].text = consoleErrorBuffer_
                 \/ /\ ~Head(timers).succeeded /\ rToolsWarning_ # <<>>
                    /\ lastEvent'.outputs[2].text =
                          consoleErrorBuffer_ \o StoredAs(rToolsWarning_)
              /\ LET recs == RecordsOfLines(LinesOf(lastEvent'.outputs[2].text),
                                            Parent(sourceFile_))
                     n == Len(lastEvent'.errors)
                 IN /\ Len(recs) <= n
                    /\ SubSeq(lastEvent'.errors, n - Len(recs) + 1, n) = recs ]_vars

\* a build with showOutput = FALSE that got error chunks only has
\* succeeded: the event reports the reported output, the error chunk and
\* the diagnostic of the error chunk
C25_Witness ==
    /\ nbuilds = 1 /\ curCompleted /\ timers = <<>>
    /\ outSince = <<>> /\ errSince = << <<"D3", NL>> >>
    /\ lastEvent.type = "completed"
    /\ lastEvent.outputs[1].text = <<"t">>
    /\ lastEvent.outputs[2].text = <<"D3", NL>>
    /\ Len(lastEvent.errors) = 1 /\ lastEvent.errors[1].line = 3

\* a step in which a chunk is pushed, on the normal or on the error channel
ChunkPushed == nchunks' = nchunks + 1
NormalChunkPushed == ChunkPushed /\ outSince' # outSince

\* C26: a chunk pushed to the subscribed session is appended to the buffer
\* of its channel and to nothing else; a chunk pushed with nothing
\* subscribed changes neither buffer; in both cases the source file, the
\* flags, the previous path, the warning, PATH, the subscription, the
\* pending callbacks, the client events and the error stream are left as
\* they are; and whenever nothing is subscribed both buffers are empty.
C26_ChunkChangesItsBufferOnly ==
    /\ [][ ChunkPushed
              => /\ UNCHANGED <<sourceFile_, fromCode_, showOutput_,
                                previousPath_, rToolsWarning_, PATH,
                                connections, timers, errStream>>
                 /\ UNCHANGED clientEvents
                 /\ IF connections = 0
                    THEN UNCHANGED <<consoleOutputBuffer_, consoleErrorBuffer_>>
                    ELSE IF NormalChunkPushed
                    THEN /\ consoleOutputBuffer_' =
                               consoleOutputBuffer_ \o outSince'[Len(outSince')]
                         /\ UNCHANGED consoleErrorBuffer_
                    ELSE /\ consoleErrorBuffer_' =
                               consoleErrorBuffer_ \o errSince'[Len(errSince')]
                         /\ UNCHANGED consoleOutputBuffer_ ]_vars
    /\ [](connections = 0
             => consoleOutputBuffer_ = <<>> /\ consoleErrorBuffer_ = <<>>)

\* a normal chunk was pushed during a failed build and is the transcript of
\* its 'completed' event, whose error text is empty; an error chunk was
\* pushed after the finalize and the idle session has kept nothing of it
C26_Witness ==
    /\ nbuilds = 1 /\ curCompleted /\ timers = <<>>
    /\ nchunks = 2
    /\ outSince = << <<"D3", NL>> >> /\ Len(errSince) = 1
    /\ lastEvent.type = "completed"
    /\ lastEvent.outputs[1].text = <<"D3", NL>>
    /\ lastEvent.outputs[2].text = <<>>
    /\ IdleSession

====
